---- MODULE Spec2Model ----
(***************************************************************************)
(* Model of conntection_pool.cpp: SQLiteDBConnection (the Resource) and    *)
(* ConnectionPool (the Pool), used by the callers of the program: the      *)
(* thread of main, which runs its getConnection/executeQuery/              *)
(* releaseConnection block without writeMutex, and the worker() threads,   *)
(* which run one such round each with executeQuery under writeMutex.       *)
(* Callers may overlap in any way once the pool is constructed.            *)
(* Resource instances are named by the number of the open attempt that     *)
(* created them (1..m_poolSize); 0 stands for "no connection".             *)
(***************************************************************************)
EXTENDS Integers, Sequences, FiniteSets, TLC

\* ---- bounds of the model ----
MaxPoolSize == 2
NumThreads == 3
MaxCycles == 2
MaxExtraReleases == 1

Threads == 1..NumThreads
MainThread == 1
Resources == 1..MaxPoolSize
NoThread == 0
NoConn == 0

VARIABLES
    m_poolSize,     \* ConnectionPool::m_poolSize
    i,              \* loop counter of initializePool
    poolPc,         \* "constructing" | "ready" | "shutdown" | "destroyed"
    m_db,           \* per instance: "unopened" | "handle" | "null" | "closed"
    m_connections,  \* ConnectionPool::m_connections (std::queue)
    m_mutex,        \* owner of ConnectionPool::m_mutex, NoThread when free
    writeMutex,     \* owner of main's writeMutex, NoThread when free
    pc,             \* position of every caller thread
    conn,           \* the caller's local `connection`
    result,         \* value returned by executeQuery, dropped by the caller's next step
    cycles,         \* completed getConnection/releaseConnection rounds
    relBlocked,     \* history: threads inside wait() at the latest push of a release
    relDone,        \* history: those of relBlocked that took a connection since
    relWasEmpty,    \* history: the queue was empty right before that push
    execFailed,     \* history: the instances whose most recent executeQuery failed
    extraReleases   \* releaseConnection calls made without a getConnection of their own

vars == <<m_poolSize, i, poolPc, m_db, m_connections, m_mutex, writeMutex,
          pc, conn, result, cycles, relBlocked, relDone, relWasEmpty, execFailed,
          extraReleases>>

poolVars == <<m_poolSize, i, poolPc, m_db>>
histVars == <<relBlocked, relDone, relWasEmpty, execFailed>>

\* ---- SQLiteDBConnection ----

\* sqlite3_open either yields a handle or fails, after which m_db is nullptr
OpenOutcomes == {"handle", "null"}

isConnected(r) == r \in Resources /\ m_db[r] = "handle"

executeQueryUnguarded(r) == {"ok", "ExecutionFailed"}

\* executeQuery: NotConnected without touching the engine when disconnected,
\* otherwise whatever sqlite3_exec reports
executeQuery(r) ==
    IF ~isConnected(r) THEN {"NotConnected"} ELSE {"ok", "ExecutionFailed"}

DbAfterExecClosesOnError(db, r, res) ==
    IF res = "ExecutionFailed" THEN [db EXCEPT ![r] = "null"] ELSE db

\* executeQuery never assigns m_db, whatever sqlite3_exec reports
DbAfterExec(db, r, res) == db

\* ---- std::queue operations on m_connections ----

QPushDropped(q, c) == q

QPush(q, c) == Append(q, c)

QFrontNewest(q) == IF q # <<>> THEN {q[Len(q)]} ELSE {NoConn} \cup Resources

\* front() of an empty queue is undefined: any instance or garbage
QFront(q) == IF q # <<>> THEN {Head(q)} ELSE {NoConn} \cup Resources

QPopKept(q) == q

QPop(q) == IF q # <<>> THEN Tail(q) ELSE q

\* ---- std::mutex / std::condition_variable ----

MutexFreeUnchecked(m) == TRUE

MutexFree(m) == m = NoThread

\* the loop condition of getConnection: wait while the queue is empty
WaitCondition(q) == q = <<>>

AfterWakeNoRecheck == "g_pop"

\* a thread leaving wait() re-evaluates the while condition
AfterWake == "g_check"

Waiting == {t \in Threads : pc[t] = "g_wait"}

NotifyAll(ws) == {ws}

NotifyNone(ws) == {{}}

\* notify_one: the sets of threads a single signal may wake
NotifyOne(ws) == IF ws = {} THEN {{}} ELSE {{w} : w \in ws}

\* ---- ConnectionPool::initializePool ----

LoopContinuesShort(k, n) == k + 1 < n

LoopContinues(k, n) == k < n

PoolAddAlways(q, r, db) == QPush(q, r)

PoolAddInverted(q, r, db) == IF db = "handle" THEN q ELSE QPush(q, r)

\* only a connected instance is pushed; a failed one is dropped
PoolAdd(q, r, db) == IF db = "handle" THEN QPush(q, r) ELSE q

Init ==
    /\ m_poolSize \in 1..MaxPoolSize
    /\ i = 0
    /\ poolPc = "constructing"
    /\ m_db = [r \in Resources |-> "unopened"]
    /\ m_connections = <<>>
    /\ m_mutex = NoThread
    /\ writeMutex = NoThread
    /\ pc = [t \in Threads |-> "idle"]
    /\ conn = [t \in Threads |-> NoConn]
    /\ result = [t \in Threads |-> "none"]
    /\ cycles = [t \in Threads |-> 0]
    /\ relBlocked = {}
    /\ relDone = {}
    /\ relWasEmpty = FALSE
    /\ execFailed = {}
    /\ extraReleases = 0

threadVars == <<pc, conn, result, cycles, extraReleases>>

\* one iteration of the for loop: open instance i+1, keep it if connected
InitializePoolStep ==
    /\ poolPc = "constructing"
    /\ LoopContinues(i, m_poolSize)
    /\ \E o \in OpenOutcomes :
         /\ m_db' = [m_db EXCEPT ![i + 1] = o]
         /\ m_connections' = PoolAdd(m_connections, i + 1, o)
    /\ i' = i + 1
    /\ UNCHANGED <<m_poolSize, poolPc, m_mutex, writeMutex, threadVars, histVars>>

\* the loop ends and the constructor returns
InitializePoolDone ==
    /\ poolPc = "constructing"
    /\ ~LoopContinues(i, m_poolSize)
    /\ poolPc' = "ready"
    /\ UNCHANGED <<m_poolSize, i, m_db, m_connections, m_mutex, writeMutex,
                   threadVars, histVars>>

\* ---- a caller: worker() / the block in main ----

\* worker() runs one round; the block of main is repeated up to MaxCycles times
Rounds(t) == IF t = MainThread THEN MaxCycles ELSE 1

\* main calls executeQuery directly, worker() takes writeMutex around it
AfterGet(t) == IF t = MainThread THEN "exec" ELSE "w_lock"

AfterExec(t) == IF t = MainThread THEN "r_lock" ELSE "w_unlock"

Start(t) ==
    /\ poolPc = "ready"
    /\ pc[t] = "idle"
    /\ cycles[t] < Rounds(t)
    /\ pc' = [pc EXCEPT ![t] = "g_lock"]
    /\ UNCHANGED <<poolVars, m_connections, m_mutex, writeMutex, conn, result,
                   cycles, extraReleases, histVars>>

GetLockBehindWoken(t) ==
    /\ pc[t] = "g_lock"
    /\ MutexFree(m_mutex)
    /\ \A u \in Threads : pc[u] # "g_woken"
    /\ m_mutex' = t
    /\ pc' = [pc EXCEPT ![t] = "g_check"]
    /\ UNCHANGED <<poolVars, m_connections, writeMutex, conn, result, cycles,
                   extraReleases, histVars>>

\* getConnection: unique_lock lock(m_mutex)
GetLock(t) ==
    /\ pc[t] = "g_lock"
    /\ MutexFree(m_mutex)
    /\ m_mutex' = t
    /\ pc' = [pc EXCEPT ![t] = "g_check"]
    /\ UNCHANGED <<poolVars, m_connections, writeMutex, conn, result, cycles, extraReleases, histVars>>

GetWaitKeepsLock(t) ==
    /\ pc[t] = "g_check"
    /\ WaitCondition(m_connections)
    /\ pc' = [pc EXCEPT ![t] = "g_wait"]
    /\ UNCHANGED <<poolVars, m_connections, m_mutex, writeMutex, conn, result,
                   cycles, extraReleases, histVars>>

\* while(m_connections.empty()) m_condVar.wait(lock): wait releases the mutex
GetWait(t) ==
    /\ pc[t] = "g_check"
    /\ WaitCondition(m_connections)
    /\ m_mutex' = NoThread
    /\ pc' = [pc EXCEPT ![t] = "g_wait"]
    /\ UNCHANGED <<poolVars, m_connections, writeMutex, conn, result, cycles, extraReleases, histVars>>

\* the loop condition is false: fall through to front()/pop()
GetProceed(t) ==
    /\ pc[t] = "g_check"
    /\ ~WaitCondition(m_connections)
    /\ pc' = [pc EXCEPT ![t] = "g_pop"]
    /\ UNCHANGED <<poolVars, m_connections, m_mutex, writeMutex, conn, result,
                   cycles, extraReleases, histVars>>

\* a waiting thread wakes without a notification
SpuriousWake(t) ==
    /\ pc[t] = "g_wait"
    /\ pc' = [pc EXCEPT ![t] = "g_woken"]
    /\ UNCHANGED <<poolVars, m_connections, m_mutex, writeMutex, conn, result,
                   cycles, extraReleases, histVars>>

\* wait() re-acquires the mutex before it returns
GetRelock(t) ==
    /\ pc[t] = "g_woken"
    /\ MutexFree(m_mutex)
    /\ m_mutex' = t
    /\ pc' = [pc EXCEPT ![t] = AfterWake]
    /\ UNCHANGED <<poolVars, m_connections, writeMutex, conn, result, cycles, extraReleases, histVars>>

\* auto connection = m_connections.front(); m_connections.pop();
GetPop(t) ==
    /\ pc[t] = "g_pop"
    /\ \E c \in QFront(m_connections) : conn' = [conn EXCEPT ![t] = c]
    /\ m_connections' = QPop(m_connections)
    /\ pc' = [pc EXCEPT ![t] = "g_ret"]
    /\ relDone' = IF t \in relBlocked THEN relDone \cup {t} ELSE relDone
    /\ UNCHANGED <<poolVars, m_mutex, writeMutex, result, cycles, extraReleases, relBlocked,
                   relWasEmpty, execFailed>>

\* return connection: the unique_lock goes out of scope
GetReturn(t) ==
    /\ pc[t] = "g_ret"
    /\ m_mutex' = NoThread
    /\ pc' = [pc EXCEPT ![t] = AfterGet(t)]
    /\ UNCHANGED <<poolVars, m_connections, writeMutex, conn, result, cycles, extraReleases, histVars>>

\* worker: lock_guard lock(writeMutex)
WriteLock(t) ==
    /\ pc[t] = "w_lock"
    /\ MutexFree(writeMutex)
    /\ writeMutex' = t
    /\ pc' = [pc EXCEPT ![t] = "exec"]
    /\ UNCHANGED <<poolVars, m_connections, m_mutex, conn, result, cycles, extraReleases, histVars>>

\* connection->executeQuery(query)
Execute(t) ==
    /\ pc[t] = "exec"
    /\ \E res \in executeQuery(conn[t]) :
         /\ result' = [result EXCEPT ![t] = res]
         /\ m_db' = DbAfterExec(m_db, conn[t], res)
         /\ execFailed' = IF res = "ExecutionFailed"
                           THEN execFailed \cup {conn[t]}
                           ELSE execFailed \ {conn[t]}
    /\ pc' = [pc EXCEPT ![t] = AfterExec(t)]
    /\ UNCHANGED <<m_poolSize, i, poolPc, m_connections, m_mutex, writeMutex, conn,
                   cycles, extraReleases, relBlocked, relDone, relWasEmpty>>

\* worker: the lock_guard's block ends; the returned bool was not kept
WriteUnlock(t) ==
    /\ pc[t] = "w_unlock"
    /\ writeMutex' = NoThread
    /\ pc' = [pc EXCEPT ![t] = "r_lock"]
    /\ result' = [result EXCEPT ![t] = "none"]
    /\ UNCHANGED <<poolVars, m_connections, m_mutex, conn, cycles, extraReleases, histVars>>

\* releaseConnection: unique_lock lock(m_mutex); main did not keep the
\* bool executeQuery returned
RelLock(t) ==
    /\ pc[t] = "r_lock"
    /\ MutexFree(m_mutex)
    /\ m_mutex' = t
    /\ pc' = [pc EXCEPT ![t] = "r_push"]
    /\ result' = [result EXCEPT ![t] = "none"]
    /\ UNCHANGED <<poolVars, m_connections, writeMutex, conn, cycles, extraReleases, histVars>>

RelPushCapacityChecked(t) ==
    /\ pc[t] = "r_push"
    /\ m_connections' = IF Len(m_connections) < m_poolSize
                           THEN QPush(m_connections, conn[t]) ELSE m_connections
    /\ pc' = [pc EXCEPT ![t] = "r_notify"]
    /\ relBlocked' = {u \in Threads : pc[u] \in {"g_wait", "g_woken"}}
    /\ relDone' = {}
    /\ relWasEmpty' = (m_connections = <<>>)
    /\ UNCHANGED <<poolVars, m_mutex, writeMutex, conn, result, cycles,
                   extraReleases, execFailed>>

RelPushDuplicateChecked(t) ==
    /\ pc[t] = "r_push"
    /\ m_connections' =
          IF \E k \in 1..Len(m_connections) : m_connections[k] = conn[t]
          THEN m_connections ELSE QPush(m_connections, conn[t])
    /\ pc' = [pc EXCEPT ![t] = "r_notify"]
    /\ relBlocked' = {u \in Threads : pc[u] \in {"g_wait", "g_woken"}}
    /\ relDone' = {}
    /\ relWasEmpty' = (m_connections = <<>>)
    /\ UNCHANGED <<poolVars, m_mutex, writeMutex, conn, result, cycles,
                   extraReleases, execFailed>>

\* releaseConnection: m_connections.push(connection)
RelPush(t) ==
    /\ pc[t] = "r_push"
    /\ m_connections' = QPush(m_connections, conn[t])
    /\ pc' = [pc EXCEPT ![t] = "r_notify"]
    /\ relBlocked' = {u \in Threads : pc[u] \in {"g_wait", "g_woken"}}
    /\ relDone' = {}
    /\ relWasEmpty' = (m_connections = <<>>)
    /\ UNCHANGED <<poolVars, m_mutex, writeMutex, conn, result, cycles, extraReleases, execFailed>>

\* releaseConnection: m_condVar.notify_one()
RelNotify(t) ==
    /\ pc[t] = "r_notify"
    /\ \E ws \in NotifyOne(Waiting) :
         pc' = [u \in Threads |->
                  IF u = t THEN "r_unlock"
                  ELSE IF u \in ws THEN "g_woken" ELSE pc[u]]
    /\ UNCHANGED <<poolVars, m_connections, m_mutex, writeMutex, conn, result,
                   cycles, extraReleases, histVars>>

\* releaseConnection returns; the caller's round is over
RelReturn(t) ==
    /\ pc[t] = "r_unlock"
    /\ m_mutex' = NoThread
    /\ pc' = [pc EXCEPT ![t] = "idle"]
    /\ conn' = [conn EXCEPT ![t] = NoConn]
    /\ cycles' = [cycles EXCEPT ![t] = @ + 1]
    /\ UNCHANGED <<poolVars, m_connections, writeMutex, result, extraReleases, histVars>>

\* a caller that breaks the contract: releaseConnection returns and the
\* caller passes the same connection to releaseConnection once more
ReleaseAgain(t) ==
    /\ pc[t] = "r_unlock"
    /\ extraReleases < MaxExtraReleases
    /\ m_mutex' = NoThread
    /\ pc' = [pc EXCEPT ![t] = "r_lock"]
    /\ extraReleases' = extraReleases + 1
    /\ UNCHANGED <<poolVars, m_connections, writeMutex, conn, result, cycles, histVars>>

ThreadStep(t) ==
    \/ Start(t)
    \/ GetLock(t)
    \/ GetWait(t)
    \/ GetProceed(t)
    \/ GetRelock(t)
    \/ GetPop(t)
    \/ GetReturn(t)
    \/ WriteLock(t)
    \/ Execute(t)
    \/ WriteUnlock(t)
    \/ RelLock(t)
    \/ RelPush(t)
    \/ RelNotify(t)
    \/ RelReturn(t)

Next ==
    \/ InitializePoolStep
    \/ InitializePoolDone
    \/ \E t \in Threads : ThreadStep(t)
    \/ \E t \in Threads : SpuriousWake(t)

Spec == Init /\ [][Next]_vars

\* ---- ConnectionPool::~ConnectionPool / shutdownPool ----

\* the destructor takes no lock: it is modelled only when no thread is
\* inside getConnection or releaseConnection
OutsidePoolPcs == {"idle", "g_lock", "w_lock", "exec", "w_unlock", "r_lock"}

\* the pool goes out of scope; callers may still hold connections
ShutdownStart ==
    /\ poolPc = "ready"
    /\ \A t \in Threads : pc[t] \in OutsidePoolPcs
    /\ poolPc' = "shutdown"
    /\ UNCHANGED <<m_poolSize, i, m_db, m_connections, m_mutex, writeMutex,
                   threadVars, histVars>>

\* ~SQLiteDBConnection runs when the last shared_ptr to the instance goes:
\* no copy left in the queue and none in a caller's hands
LastReference(r, q) ==
    /\ \A k \in 1..Len(q) : q[k] # r
    /\ \A t \in Threads : conn[t] # r

\* ~SQLiteDBConnection: sqlite3_close when m_db is set
Destroy(db, r) == IF db[r] = "handle" THEN [db EXCEPT ![r] = "closed"] ELSE db

ShutdownStepLeaks ==
    /\ poolPc = "shutdown"
    /\ m_connections # <<>>
    /\ m_connections' = QPop(m_connections)
    /\ UNCHANGED <<m_poolSize, i, poolPc, m_db, m_mutex, writeMutex, threadVars, histVars>>

\* one iteration of the while loop of shutdownPool: front(), pop(), and the
\* local shared_ptr goes out of scope
ShutdownStep ==
    /\ poolPc = "shutdown"
    /\ m_connections # <<>>
    /\ m_connections' = QPop(m_connections)
    /\ \E r \in QFront(m_connections) :
         m_db' = IF LastReference(r, m_connections')
                 THEN Destroy(m_db, r) ELSE m_db
    /\ UNCHANGED <<m_poolSize, i, poolPc, m_mutex, writeMutex, threadVars, histVars>>

ShutdownDoneReclaims ==
    /\ poolPc = "shutdown"
    /\ m_connections = <<>>
    /\ poolPc' = "destroyed"
    /\ m_db' = [r \in Resources |-> IF m_db[r] = "handle" THEN "closed" ELSE m_db[r]]
    /\ UNCHANGED <<m_poolSize, i, m_connections, m_mutex, writeMutex,
                   threadVars, histVars>>

\* the queue is empty: shutdownPool and the destructor return
ShutdownDone ==
    /\ poolPc = "shutdown"
    /\ m_connections = <<>>
    /\ poolPc' = "destroyed"
    /\ UNCHANGED <<m_poolSize, i, m_db, m_connections, m_mutex, writeMutex,
                   threadVars, histVars>>

\* a caller that holds a connection goes on using it after the pool is
\* gone; calls into the destroyed pool are not modelled
HolderStep(t) ==
    /\ poolPc \in {"shutdown", "destroyed"}
    /\ (WriteLock(t) \/ Execute(t) \/ WriteUnlock(t))

\* the program with a pool that may be destroyed while connections are out
TeardownNext ==
    \/ (poolPc \in {"constructing", "ready"} /\ Next)
    \/ ShutdownStart
    \/ ShutdownStep
    \/ ShutdownDone
    \/ \E t \in Threads : HolderStep(t)

TeardownSpec == Init /\ [][TeardownNext]_vars

\* ---- SQLiteDBConnection used on its own, outside a pool ----

\* SQLiteDBConnection c(dbFile)
DirectOpen(r) ==
    /\ m_db[r] = "unopened"
    /\ \E o \in OpenOutcomes : m_db' = [m_db EXCEPT ![r] = o]
    /\ UNCHANGED <<m_poolSize, i, poolPc, m_connections, m_mutex, writeMutex,
                   threadVars, histVars>>

\* c.executeQuery(query) by a caller that has the object, connected or not
DirectExecute(t, r) ==
    /\ m_db[r] \in OpenOutcomes
    /\ conn' = [conn EXCEPT ![t] = r]
    /\ \E res \in executeQuery(r) :
         /\ result' = [result EXCEPT ![t] = res]
         /\ m_db' = DbAfterExec(m_db, r, res)
    /\ UNCHANGED <<m_poolSize, i, poolPc, m_connections, m_mutex, writeMutex,
                   pc, cycles, extraReleases, histVars>>

DirectNext ==
    \/ \E r \in Resources : DirectOpen(r)
    \/ \E t \in Threads, r \in Resources : DirectExecute(t, r)

DirectSpec == Init /\ [][DirectNext]_vars

\* the program with callers that may release a connection twice
MisuseNext ==
    \/ Next
    \/ \E t \in Threads : ReleaseAgain(t)

MisuseSpec == Init /\ [][MisuseNext]_vars

FairMisuseSpec ==
    /\ MisuseSpec
    /\ WF_vars(InitializePoolStep)
    /\ WF_vars(InitializePoolDone)
    /\ \A t \in Threads : SF_vars(ThreadStep(t))

\* fair scheduling: every thread that can run infinitely often does run;
\* spurious wake-ups are never owed
FairSpec ==
    /\ Spec
    /\ WF_vars(InitializePoolStep)
    /\ WF_vars(InitializePoolDone)
    /\ \A t \in Threads : SF_vars(ThreadStep(t))

TypeOK ==
    /\ m_poolSize \in 1..MaxPoolSize
    /\ i \in 0..MaxPoolSize
    /\ poolPc \in {"constructing", "ready", "shutdown", "destroyed"}
    /\ m_db \in [Resources -> {"unopened", "handle", "null", "closed"}]
    /\ m_mutex \in {NoThread} \cup Threads
    /\ writeMutex \in {NoThread} \cup Threads
    /\ conn \in [Threads -> {NoConn} \cup Resources]
    /\ cycles \in [Threads -> 0..MaxCycles]
    /\ extraReleases \in 0..MaxExtraReleases

\* ---- derived quantities ----

\* instances whose open succeeded
Opened == {r \in Resources : m_db[r] = "handle"}

\* instances currently in the available set
Available == {m_connections[k] : k \in 1..Len(m_connections)}

\* instances whose open succeeded, closed since or not
EverOpened == {r \in Resources : m_db[r] \in {"handle", "closed"}}

\* a caller holds its connection from the pop in getConnection to the push
\* in releaseConnection
HoldingPcs == {"g_ret", "w_lock", "exec", "w_unlock", "r_lock", "r_push"}

CheckedOut == {t \in Threads : pc[t] \in HoldingPcs}

\* inside getConnection without a connection yet
BlockedPcs == {"g_wait", "g_woken", "g_check", "g_pop"}

OthersNotStarted(t) ==
    \A u \in Threads \ {t} : pc[u] = "idle" /\ cycles[u] = 0

OthersIdle(t) == \A u \in Threads \ {t} : pc[u] = "idle"

\* ---- claims ----

\* C1: available + checked out = successfully opened <= capacity, in every
\* reachable state of a pool whose callers release what they acquired, once.
C1_Conservation ==
    /\ Len(m_connections) + Cardinality(CheckedOut) = Cardinality(Opened)
    /\ Cardinality(Opened) <= m_poolSize

C1_Witness ==
    /\ Len(m_connections) >= 1
    /\ Cardinality(CheckedOut) >= 1
    /\ \E t \in Threads : cycles[t] >= 1

\* C2: no instance is held by two callers at once, and no instance is both
\* in the available set and held by a caller.
C2_MutualExclusion ==
    /\ \A t, u \in CheckedOut : t # u => conn[t] # conn[u]
    /\ \A t \in CheckedOut : conn[t] \in Opened /\ conn[t] \notin Available

C2_Witness ==
    /\ Cardinality(CheckedOut) >= 2
    /\ \E t \in CheckedOut : cycles[t] >= 1

\* C3: a thread reaches front()/pop() only while it owns the pool lock and
\* the available set is non-empty; a thread woken from wait() re-takes the
\* lock and re-evaluates the emptiness check, and waits again if it is empty.
C3_NeverPopsEmpty ==
    /\ [](\A t \in Threads :
            pc[t] = "g_pop" => m_connections # <<>> /\ m_mutex = t)
    /\ [][ \A t \in Threads :
            /\ (pc[t] = "g_woken" /\ pc'[t] # "g_woken") =>
                    pc'[t] = "g_check" /\ m_mutex' = t
            /\ (pc[t] = "g_check" /\ pc'[t] # "g_check" /\ m_connections = <<>>) =>
                    pc'[t] = "g_wait"
       ]_vars

C3_Witness ==
    \E t \in Threads : pc[t] = "g_pop" /\ t \in relBlocked

\* C4 as stated: once the effects of a release made while threads were
\* blocked have played out (the set is empty again and every blocked thread
\* that did not get a connection waits), exactly one of them completed.
C4_Original ==
    ( /\ relBlocked # {}
      /\ m_connections = <<>>
      /\ \A t \in relBlocked \ relDone : pc[t] = "g_wait" )
    => Cardinality(relDone) = 1

\* C4 amended: after a release made while the available set was empty and
\* threads were blocked, at most one of the blocked threads completes before
\* the next release; the others are still inside getConnection.
C4_AtMostOne ==
    (relBlocked # {} /\ relWasEmpty) =>
        /\ Cardinality(relDone) <= 1
        /\ \A t \in relBlocked \ relDone : pc[t] \in BlockedPcs

C4_Witness ==
    /\ Cardinality(relBlocked) >= 2
    /\ relWasEmpty
    /\ Cardinality(relDone) = 1
    /\ \E t \in relDone : pc[t] = "exec"
    /\ \A t \in relBlocked \ relDone : pc[t] = "g_wait"

\* C5: the push of a release appends the caller's connection; its
\* notify_one moves exactly one waiting thread to woken when some thread
\* waits, and changes nothing but the releaser's position when none does.
C5_ReleaseWakesOne ==
    [][ \A t \in Threads :
          /\ (pc[t] = "r_push" /\ pc'[t] = "r_notify") =>
                /\ m_connections' = Append(m_connections, conn[t])
                /\ \A u \in Threads \ {t} : pc'[u] = pc[u]
          /\ (pc[t] = "r_notify" /\ pc'[t] = "r_unlock") =>
                /\ m_connections' = m_connections
                /\ Waiting # {} =>
                     \E w \in Waiting :
                        /\ pc'[w] = "g_woken"
                        /\ \A u \in Threads \ {t, w} : pc'[u] = pc[u]
                /\ Waiting = {} =>
                     \A u \in Threads \ {t} : pc'[u] = pc[u]
      ]_vars

C5_Witness ==
    /\ \E t \in Threads : pc[t] = "r_unlock"
    /\ \E w \in Threads : pc[w] = "g_woken"
    /\ \E w \in Threads : pc[w] = "g_wait"

\* C6: with every open successful and more workers than connections, under
\* fair scheduling every worker finishes all its rounds, and never more
\* than m_poolSize connections are checked out.
C6_Saturation ==
    /\ [](Cardinality(CheckedOut) <= m_poolSize)
    /\ (poolPc = "ready" /\ Cardinality(Opened) = m_poolSize)
          ~> (\A t \in Threads : pc[t] = "idle" /\ cycles[t] = Rounds(t))

C6_Witness ==
    /\ Cardinality(Opened) = m_poolSize
    /\ NumThreads > m_poolSize
    /\ Cardinality(CheckedOut) = m_poolSize
    /\ Waiting # {}

\* C7: when at least one open succeeded, a getConnection call made while no
\* other caller holds or requests a connection finds the set non-empty and,
\* under fair scheduling, returns.
C7_SingleAcquireCompletes ==
    /\ [](\A t \in Threads :
            (Opened # {} /\ pc[t] = "g_check" /\ OthersIdle(t))
                => m_connections # <<>>)
    /\ \A t \in Threads :
          (poolPc = "ready" /\ Opened # {} /\ pc[t] = "g_lock" /\ OthersIdle(t))
              ~> (pc[t] = AfterGet(t) /\ conn[t] \in Opened)

C7_Witness ==
    \E t \in Threads :
        /\ OthersIdle(t)
        /\ pc[t] = AfterGet(t)
        /\ conn[t] \in Opened
        /\ Cardinality(Opened) < m_poolSize

\* C8: a pool whose opens all failed is constructed normally, and no
\* getConnection call on it ever gets past the wait loop.
C8_ExhaustedPoolBlocks ==
    (poolPc = "ready" /\ Opened = {}) =>
        \A t \in Threads :
            /\ pc[t] \in {"idle", "g_lock", "g_check", "g_wait", "g_woken"}
            /\ conn[t] = NoConn
            /\ cycles[t] = 0

C8_Witness ==
    /\ poolPc = "ready"
    /\ Opened = {}
    /\ m_poolSize = MaxPoolSize
    /\ \A t \in Threads : pc[t] = "g_wait"

\* C9: construction makes exactly m_poolSize open attempts; right after it
\* the available set holds the connected instances, each once and in the
\* order they were opened, and none that failed.
C9_Construction ==
    /\ i <= m_poolSize
    /\ \A r \in Resources : (m_db[r] # "unopened") <=> (r <= i)
    /\ poolPc = "ready" => i = m_poolSize
    /\ (\A t \in Threads : pc[t] = "idle" /\ cycles[t] = 0) =>
          /\ Available = Opened
          /\ Len(m_connections) = Cardinality(Opened)
          /\ \A j, k \in 1..Len(m_connections) :
                j < k => m_connections[j] < m_connections[k]

C9_Witness ==
    /\ poolPc = "ready"
    /\ \A t \in Threads : pc[t] = "idle" /\ cycles[t] = 0
    /\ m_poolSize >= 2
    /\ Opened # {}
    /\ \E r \in 1..m_poolSize : m_db[r] = "null"

\* C10: whenever a single thread has finished some number of
\* getConnection/releaseConnection rounds on a pool nobody else uses, the
\* available set again holds every opened instance exactly once.
C10_RoundTrip ==
    \A t \in Threads :
        (poolPc = "ready" /\ pc[t] = "idle" /\ OthersNotStarted(t)) =>
            /\ Len(m_connections) = Cardinality(Opened)
            /\ Available = Opened

C10_Witness ==
    \E t \in Threads :
        /\ pc[t] = "idle"
        /\ cycles[t] >= 2
        /\ OthersNotStarted(t)
        /\ Cardinality(Opened) >= 2

\* C11: an executeQuery call, whether it succeeds or fails, changes neither
\* the available set nor any other thread's position nor the pool lock, and
\* leaves the instance connected; an instance whose last executeQuery
\* failed is handed back and acquired again like any other.
C11_FailureIsolation ==
    /\ [][ \A t \in Threads :
            (pc[t] = "exec" /\ pc'[t] # "exec") =>
                /\ result'[t] \in {"ok", "ExecutionFailed"}
                /\ m_connections' = m_connections
                /\ m_mutex' = m_mutex
                /\ m_db' = m_db
                /\ conn' = conn
                /\ \A u \in Threads \ {t} : pc'[u] = pc[u]
       ]_vars
    /\ [](\A r \in execFailed : m_db[r] = "handle")
    /\ [](\A r \in execFailed :
            \/ r \in Available
            \/ \E t \in Threads : conn[t] = r /\ pc[t] # "idle")

\* a caller that has not run executeQuery yet holds an instance on which
\* another caller's query failed
C11_Witness ==
    \E u \in Threads :
        /\ cycles[u] = 0
        /\ pc[u] = "exec"
        /\ conn[u] \in execFailed

\* C12: the pool lock is owned only between the lock and the end of
\* getConnection or releaseConnection, never by a thread inside wait() or
\* executeQuery; so a releaseConnection call finds the lock free whenever
\* the other threads are blocked in wait() or busy with executeQuery.
C12_LockScope ==
    /\ \A t \in Threads :
          m_mutex = t =>
              pc[t] \in {"g_check", "g_pop", "g_ret", "r_push", "r_notify", "r_unlock"}
    /\ \A t \in Threads :
          ( /\ pc[t] = "r_lock"
            /\ \A u \in Threads \ {t} :
                  pc[u] \in {"idle", "g_wait", "w_lock", "exec", "w_unlock"} )
          => (m_mutex = NoThread /\ ENABLED RelLock(t))

C12_Witness ==
    \E t, u, v \in Threads :
        /\ pc[t] = "r_lock"
        /\ pc[u] = "g_wait"
        /\ pc[v] = "exec"
        /\ m_mutex = NoThread

\* C13: releaseConnection never waits and checks nothing: once it has the
\* lock each of its steps can be taken in every pool state, its push appends
\* the connection also when the queue already holds every opened instance,
\* and under fair scheduling every call that started returns with the
\* connection in the available set.
C13_ReleaseAlwaysSucceeds ==
    /\ [](\A t \in Threads :
            pc[t] \in {"r_push", "r_notify", "r_unlock"} =>
                m_mutex = t /\ ENABLED ThreadStep(t))
    /\ [][ \A t \in Threads :
            (pc[t] = "r_push" /\ pc'[t] # "r_push") =>
                /\ pc'[t] = "r_notify"
                /\ Len(m_connections') = Len(m_connections) + 1
                /\ m_connections'[Len(m_connections')] = conn[t]
       ]_vars
    /\ \A t \in Threads :
          (pc[t] = "r_lock") ~> (pc[t] = "r_unlock" /\ conn[t] \in Available)

C13_Witness ==
    \E t \in Threads :
        /\ pc[t] = "r_unlock"
        /\ Opened # {}
        /\ Len(m_connections) > Cardinality(Opened)

\* C16: releaseConnection appends a connection that is already in the
\* available set; every release without an acquire of its own adds one
\* to available + checked out over the number of opened instances, and two
\* callers can then hold the same instance.
C16_NoDefensiveCheck ==
    /\ [][ \A t \in Threads :
            (pc[t] = "r_push" /\ pc'[t] # "r_push" /\ conn[t] \in Available) =>
                m_connections' = Append(m_connections, conn[t])
       ]_vars
    /\ [](Len(m_connections) + Cardinality(CheckedOut)
            = Cardinality(Opened) + extraReleases)

C16_Witness ==
    \E t, u \in Threads :
        /\ t # u
        /\ pc[t] \in {"w_lock", "exec", "w_unlock"}
        /\ pc[u] \in {"w_lock", "exec", "w_unlock"}
        /\ conn[t] = conn[u]
        /\ conn[t] \in Opened
        /\ Len(m_connections) + Cardinality(CheckedOut) > Cardinality(Opened)

\* the state of an instance's slot
SlotState(db, q, p, c, r) ==
    IF db[r] = "closed" THEN "Closed"
    ELSE IF \E k \in 1..Len(q) : q[k] = r THEN "Available"
    ELSE IF \E t \in Threads : p[t] \in HoldingPcs /\ c[t] = r THEN "CheckedOut"
    ELSE "None"

Slot(r) == SlotState(m_db, m_connections, pc, conn, r)

SlotNext(r) == SlotState(m_db', m_connections', pc', conn', r)

\* C14: a slot changes state only from Available to CheckedOut by the pop
\* of a getConnection, from CheckedOut to Available by the push of its
\* holder's releaseConnection, and from Available to Closed by the pool's
\* teardown (and comes into being Available during construction); a
\* checked-out instance is never closed or taken back by the pool, and a
\* closed one stays closed.
C14_SlotTransitions ==
    [][ \A r \in Resources :
          Slot(r) # SlotNext(r) =>
            \/ /\ Slot(r) = "None" /\ SlotNext(r) = "Available"
               /\ poolPc = "constructing"
            \/ /\ Slot(r) = "Available" /\ SlotNext(r) = "CheckedOut"
               /\ \E t \in Threads :
                     pc[t] = "g_pop" /\ pc'[t] = "g_ret" /\ conn'[t] = r
            \/ /\ Slot(r) = "CheckedOut" /\ SlotNext(r) = "Available"
               /\ \E t \in Threads :
                     pc[t] = "r_push" /\ pc'[t] = "r_notify" /\ conn[t] = r
            \/ /\ Slot(r) = "Available" /\ SlotNext(r) = "Closed"
               /\ poolPc = "shutdown"
      ]_vars

C14_Witness ==
    /\ poolPc = "destroyed"
    /\ \E r \in Resources : Slot(r) = "Closed"
    /\ \E r \in Resources : Slot(r) = "CheckedOut"
    /\ \E t \in Threads : cycles[t] >= 1

\* C15: teardown moves no caller and takes no connection from one; once it
\* is over the available set is empty, every instance that was in it is
\* closed, and every instance that was checked out still has its handle
\* and is still in its caller's hands.
C15_Teardown ==
    /\ [][ (poolPc = "shutdown" /\ (poolPc' # poolPc \/ m_connections' # m_connections))
            => (pc' = pc /\ conn' = conn /\ Len(m_connections') <= Len(m_connections)) ]_vars
    /\ [](poolPc = "destroyed" =>
            /\ m_connections = <<>>
            /\ \A r \in EverOpened :
                  \/ /\ m_db[r] = "closed"
                     /\ \A t \in Threads : conn[t] # r
                  \/ /\ m_db[r] = "handle"
                     /\ \E t \in CheckedOut : conn[t] = r)

C15_Witness ==
    /\ poolPc = "destroyed"
    /\ \E r \in Resources : m_db[r] = "closed"
    /\ \E t \in Threads :
          pc[t] = "w_unlock" /\ m_db[conn[t]] = "handle" /\ result[t] = "ok"

\* C17: executeQuery on an instance whose open failed returns NotConnected
\* (the engine is not called: no "ok" or "ExecutionFailed" comes back) and
\* changes neither the instance nor the pool; an instance that failed to
\* open never gets a handle later.
C17_NotConnected ==
    /\ [][ \A r \in Resources : m_db[r] = "null" => m_db'[r] = "null" ]_vars
    /\ [][ \A t \in Threads :
            (result'[t] # result[t] \/ conn'[t] # conn[t]) =>
                /\ m_db[conn'[t]] = "null" =>
                      /\ result'[t] = "NotConnected"
                      /\ m_db' = m_db
                /\ m_db[conn'[t]] = "handle" =>
                      result'[t] \in {"ok", "ExecutionFailed"}
                /\ m_connections' = m_connections
                /\ m_mutex' = m_mutex
                /\ pc' = pc
       ]_vars
    /\ [](\A t \in Threads :
            conn[t] \in Resources =>
                (result[t] = "NotConnected" <=> m_db[conn[t]] = "null"))

C17_Witness ==
    \E t, u \in Threads :
        /\ conn[t] \in Resources
        /\ m_db[conn[t]] = "null"
        /\ result[t] = "NotConnected"
        /\ conn[u] \in Resources
        /\ result[u] = "ExecutionFailed"

\* C18: nothing orders the callers of getConnection: a thread that arrives
\* while a woken thread has not re-taken the lock may take the lock first,
\* and notify_one may wake any of the waiting threads; so a later caller can
\* get a connection while an earlier, woken one finds the queue empty and
\* blocks again.
C18_NoArrivalOrder ==
    /\ \A u, w \in Threads :
          (pc[u] = "g_lock" /\ pc[w] = "g_woken" /\ m_mutex = NoThread)
              => ENABLED GetLock(u)
    /\ \A t \in Threads :
          pc[t] = "r_notify" =>
              \A w \in Waiting : ENABLED (RelNotify(t) /\ pc'[w] = "g_woken")

C18_Witness ==
    \E w \in Threads \ {MainThread} :
        /\ w \in relBlocked
        /\ relWasEmpty
        /\ relDone = {}
        /\ pc[w] = "g_wait"
        /\ m_connections = <<>>
        /\ cycles[MainThread] = 1
        /\ pc[MainThread] = "exec"
        /\ conn[MainThread] \in Opened
        /\ \A x \in Threads \ {MainThread, w} : pc[x] = "idle" /\ cycles[x] = 0

\* threads that left wait() and have not yet finished re-checking the queue
\* (woken and waiting for the lock, or holding it on the way to pop or wait)
WokenPending == {t \in Threads : pc[t] \in {"g_woken", "g_check", "g_pop"}}

\* releaseConnection calls that have pushed and are about to notify
SignalPending == {t \in Threads : pc[t] = "r_notify"}

C20_Fifo ==
    /\ [][ \A t \in Threads :
            /\ (pc[t] = "g_pop" /\ pc'[t] = "g_ret") =>
                  /\ conn'[t] = Head(m_connections)
                  /\ m_connections' = Tail(m_connections)
            /\ (pc[t] = "r_push" /\ pc'[t] = "r_notify") =>
                  /\ Len(m_connections') = Len(m_connections) + 1
                  /\ m_connections'[Len(m_connections')] = conn[t]
                  /\ SubSeq(m_connections', 1, Len(m_connections)) = m_connections
       ]_vars
    /\ []((\A t \in Threads : pc[t] = "idle" /\ cycles[t] = 0) =>
            \A j, k \in 1..Len(m_connections) :
                j < k => m_connections[j] < m_connections[k])

C20_Witness ==
    \E t \in Threads :
        /\ pc[t] = "g_ret"
        /\ conn[t] = 2
        /\ m_connections = <<1>>
        /\ \E u \in Threads : cycles[u] >= 1

====
